---- MODULE Spec2Model ----
(***************************************************************************)
(* The four scripts of the repository as one state machine.  A run picks   *)
(* one script; pc is the position inside its entry function.  Every call   *)
(* into the ML framework, the filesystem or the network either returns or  *)
(* raises, chosen nondeterministically at the step that makes the call.    *)
(***************************************************************************)
EXTENDS Integers, Sequences, FiniteSets, TLC

\* ------------------------------------------------------------------ bounds
\* longest converted-model buffer (bytes) the converter hands back
MaxBufLen == 2
\* most entries os.listdir("assets/models") returns
MaxEntries == 2

\* --------------------------------------------------------------- constants
ConvertFacenet == "convert_facenet.py"
ConvertFacenetV2 == "convert_facenet_v2.py"
ConvertToTflite == "convert_to_tflite.py"
GetTfliteModels == "get_tflite_models.py"

ConvScripts == {ConvertFacenet, ConvertFacenetV2, ConvertToTflite}
Scripts == ConvScripts \cup {GetTfliteModels}

MODELS_DIR == "assets/models"
output_path == "assets/models/face_recognition_model.tflite"
mobilefacenet_path == "assets/models/mobilefacenet.tflite"
OutputFiles == {output_path, mobilefacenet_path}

\* the order in which the two open(..., 'wb') blocks run
SwappedWriteOrder == <<mobilefacenet_path, output_path>>
WriteOrder == <<output_path, mobilefacenet_path>>

\* tf.TensorSpec shapes handed to get_concrete_function
DynamicShape == <<"None", "160", "160", "3">>
FixedShape == <<"1", "160", "160", "3">>

\* size > 100000
Threshold == 100000

\* the fixed list of main(): name, destination file
models == << [name |-> "MobileNetV1", file |-> "assets/models/mobilenet_v1.tflite"],
             [name |-> "Face Detection", file |-> "assets/models/face_detector.tflite"],
             [name |-> "Face Landmarks", file |-> "assets/models/face_landmarker.tflite"] >>

\* ------------------------------------------------------------- environment
Bytes == {0, 1}

\* what converter.convert() returns when it does not raise: a serialized
\* flatbuffer, which is never zero-length; the scripts write it unexamined
TfliteBuffers == UNION { [1..n -> Bytes] : n \in 1..MaxBufLen }

\* a file left behind by an earlier run
StaleData == <<0>>
NoFile == [exists |-> FALSE, data |-> <<>>]
InitialFile == { NoFile, [exists |-> TRUE, data |-> StaleData] }

\* file sizes a completed download can have
SizeSamples == {0, Threshold - 1, Threshold, Threshold + 1}

\* directory-entry names as character sequences
NameFaceNet == <<"F", "a", "c", "e", "N", "e", "t">>
NameUpperSuffix == <<"M", "y", "F", "A", "C", "E", "N", "E", "T">>
NameLowerPrefix == <<"f", "a", "c", "e", "n", "e", "t", "_", "V", "1">>
NameSplit == <<"f", "a", "c", "e", "_", "n", "e", "t">>
NameShort == <<"f", "a", "c", "e", "n", "e">>
EntryNames == {NameFaceNet, NameUpperSuffix, NameLowerPrefix, NameSplit, NameShort}
DirEntries == [name : EntryNames, isdir : BOOLEAN]

DistinctNames(l) == \A i, j \in 1..Len(l) : i # j => l[i].name # l[j].name
Listings == { l \in UNION { [1..n -> DirEntries] : n \in 0..MaxEntries } : DistinctNames(l) }

\* ---------------------------------------------------------- pure functions
UpperToLower ==
    [A |-> "a", B |-> "b", C |-> "c", D |-> "d", E |-> "e", F |-> "f", G |-> "g",
     H |-> "h", I |-> "i", J |-> "j", K |-> "k", L |-> "l", M |-> "m", N |-> "n",
     O |-> "o", P |-> "p", Q |-> "q", R |-> "r", S |-> "s", T |-> "t", U |-> "u",
     V |-> "v", W |-> "w", X |-> "x", Y |-> "y", Z |-> "z"]

\* str.lower(), character by character, on ASCII names
LowerChar(c) == IF c \in DOMAIN UpperToLower THEN UpperToLower[c] ELSE c
Lower(s) == [i \in 1..Len(s) |-> LowerChar(s[i])]

\* Python's  sub in s
Contains(sub, s) ==
    \E i \in 0..(Len(s) - Len(sub)) : SubSeq(s, i + 1, i + Len(sub)) = sub

facenet == <<"f", "a", "c", "e", "n", "e", "t">>

\* the condition of the scan loop of convert_to_tflite.py
IsCandidate(e) == e.isdir /\ Contains(facenet, Lower(e.name))

\* os.path.join("assets/models", item)
Join(dir, item) == <<dir, item>>

\* for item in os.listdir(...): if ...: model_dir = ...; break
\* None is the empty tuple
RECURSIVE ScanFrom(_, _)
ScanFrom(l, i) ==
    IF i > Len(l) THEN <<>>
    ELSE IF IsCandidate(l[i]) THEN Join(MODELS_DIR, l[i].name)
    ELSE ScanFrom(l, i + 1)

FindModelDir(l) == ScanFrom(l, 1)

\* if not os.path.exists(.../saved_model.pb)
NeverMissing(exists) == FALSE
MarkerMissing(exists) == ~exists

\* which script's handler calls create_simple_tflite_model
NoFallback(s) == FALSE
HasFallback(s) == s = ConvertFacenetV2

\* which script wraps the first trace in its own try/except
AlwaysRetries(s) == TRUE
RetriesTrace(s) == s = ConvertFacenetV2

\* with open(path, 'wb') as f: f.write(buf)
\*   "open_fail"  : open raises, the file is untouched
\*   "write_fail" : the file is truncated, k bytes reach it, write raises
\*   "ok"         : the file holds buf
WriteOutcomes(buf) ==
    {[kind |-> "ok", k |-> Len(buf)], [kind |-> "open_fail", k |-> 0]}
        \cup { [kind |-> "write_fail", k |-> n] : n \in 0..(Len(buf) - 1) }

\* a write that loses the last byte of the buffer
DropsLastByte(old, buf, o) ==
    IF o.kind = "open_fail" THEN old
    ELSE [exists |-> TRUE, data |-> SubSeq(buf, 1, IF o.k > 0 THEN o.k - 1 ELSE 0)]
FileAfterWrite(old, buf, o) ==
    IF o.kind = "open_fail" THEN old
    ELSE [exists |-> TRUE, data |-> SubSeq(buf, 1, o.k)]

\* download_file: the outcome of urlretrieve + getsize decides the result
\*   ends      : urlretrieve returned or raised; it is called without a
\*               timeout, so on a peer that never answers it blocks forever
\*   retrieved : urlretrieve returned      stat : os.path.getsize returned
AcceptsAtThreshold(size) == size >= Threshold
SizeAccepted(size) == size > Threshold

DownloadOutcomes ==
    {[ends |-> FALSE, retrieved |-> FALSE, stat |-> FALSE, size |-> 0],
     [ends |-> TRUE, retrieved |-> FALSE, stat |-> FALSE, size |-> 0]}
        \cup { [ends |-> TRUE, retrieved |-> TRUE, stat |-> FALSE, size |-> s] :
                  s \in SizeSamples }
        \cup { [ends |-> TRUE, retrieved |-> TRUE, stat |-> TRUE, size |-> s] :
                  s \in SizeSamples }

\* return values of the entry functions; Raised: an exception left the
\* function; Blocked: the call never comes back
NoResult == "none"
True == "True"
False == "False"
Raised == "raised"
Blocked == "blocked"

\* the scripts whose print calls carry emoji: on a stdout whose encoding has
\* no such characters (ascii, cp1252) those prints raise UnicodeEncodeError
EmojiScripts == {ConvertToTflite, GetTfliteModels}
PrintRaises(s, encodes) == s \in EmojiScripts /\ ~encodes

\* enc: stdout can encode the emoji of lines 13, 21, 24, 28.  When it cannot,
\* the print of line 13 raises inside the try and the handler's print of
\* line 28 raises again, out of the function, before urlretrieve is called
download_file(o, enc) ==
    IF ~enc THEN Raised
    ELSE IF ~o.ends THEN Blocked
    ELSE IF ~o.retrieved THEN False
    ELSE IF ~o.stat THEN False
    ELSE IF SizeAccepted(o.size) THEN True ELSE False

\* if download_file(...): success_count += 1
CountsEveryEntry(count, ok) == count + 1
CountAfter(count, ok) == IF ok THEN count + 1 ELSE count

\* the for loop moves to the next entry whatever download_file returned
StopsOnFailure(i, ok) == IF ok THEN i + 1 ELSE Len(models) + 1
NextEntry(i, ok) == i + 1

\* return create_simple_tflite_model()
HandlerReturn(r) == r

\* ------------------------------------------------------------------- state
VARIABLES
    script,         \* the script this run executes
    markerExists,   \* assets/models/saved_model.pb exists
    listing,        \* what os.listdir("assets/models") returns
    stdoutEncodes,  \* sys.stdout can encode the emoji the script prints
    pc,             \* position in the entry function
    model_dir,      \* located model directory, <<>> for None
    loadedDir,      \* directories handed to tf.saved_model.load
    traceAttempts,  \* get_concrete_function calls: shape and outcome
    tflite_model,   \* the buffer of the last converter.convert()
    files,          \* the two output files on disk
    writeLog,       \* every open(..., 'wb') of this run that succeeded
    fallbackCalls,  \* calls of create_simple_tflite_model
    fallbackResult, \* what create_simple_tflite_model returned
    raisedAt,       \* steps whose exception reached a handler
    result,         \* return value of the entry function
    uncaught,       \* an exception left the entry function
    idx,            \* downloader: index of the next entry
    success_count,  \* downloader: main's counter
    attempts,       \* downloader: every download_file call
    summary         \* downloader: the printed <<count, total>>

env == <<script, markerExists, listing, stdoutEncodes>>
ctl == <<pc, result, fallbackCalls, raisedAt, uncaught>>
conv == <<model_dir, loadedDir, traceAttempts, tflite_model, files, writeLog, fallbackResult>>
dl == <<idx, success_count, attempts, summary>>
vars == <<env, ctl, conv, dl>>

PrimaryPath == "convert_facenet_to_tflite"
FallbackPath == "create_simple_tflite_model"

InitCommon ==
    /\ pc = "start"
    /\ model_dir = <<>>
    /\ loadedDir = <<>>
    /\ traceAttempts = <<>>
    /\ tflite_model = <<>>
    /\ writeLog = <<>>
    /\ fallbackCalls = 0
    /\ fallbackResult = NoResult
    /\ raisedAt = <<>>
    /\ result = NoResult
    /\ uncaught = FALSE
    /\ idx = 1
    /\ success_count = 0
    /\ attempts = <<>>
    /\ summary = <<>>

Init ==
    /\ script \in Scripts
    /\ markerExists \in (IF script \in {ConvertFacenet, ConvertFacenetV2} THEN BOOLEAN ELSE {FALSE})
    /\ listing \in (IF script = ConvertToTflite THEN Listings ELSE {<<>>})
    /\ stdoutEncodes \in (IF script \in EmojiScripts THEN BOOLEAN ELSE {TRUE})
    /\ files \in (IF script \in ConvScripts THEN [OutputFiles -> InitialFile]
                                            ELSE {[f \in OutputFiles |-> NoFile]})
    /\ InitCommon

\* ------------------------------------------------------------ control flow
Goto(p) == pc' = p /\ UNCHANGED <<result, fallbackCalls, raisedAt, uncaught>>

\* return False
ReturnFalse == pc' = "done" /\ result' = False /\ UNCHANGED <<fallbackCalls, raisedAt, uncaught>>

\* except Exception as e: of convert_facenet_to_tflite.  The handler prints
\* first; in convert_to_tflite.py that print carries an emoji, and when it
\* raises the exception leaves the function
Except(step) ==
    /\ raisedAt' = Append(raisedAt, step)
    /\ IF PrintRaises(script, stdoutEncodes)
       THEN pc' = "crashed" /\ uncaught' = TRUE /\ UNCHANGED <<result, fallbackCalls>>
       ELSE IF HasFallback(script)
       THEN pc' = "fb_build" /\ fallbackCalls' = fallbackCalls + 1
            /\ UNCHANGED <<result, uncaught>>
       ELSE pc' = "done" /\ result' = False /\ UNCHANGED <<fallbackCalls, uncaught>>

\* except Exception as e: of create_simple_tflite_model
FallbackExcept(step) ==
    /\ raisedAt' = Append(raisedAt, step)
    /\ fallbackResult' = False
    /\ pc' = "fb_return"
    /\ UNCHANGED <<result, fallbackCalls, uncaught>>

\* one with open(path, 'wb') block, attempted by function `by`
WriteFile(f, by, o) ==
    /\ files' = [files EXCEPT ![f] = FileAfterWrite(@, tflite_model, o)]
    /\ writeLog' = IF o.kind = "open_fail" THEN writeLog
                   ELSE Append(writeLog, [by |-> by, file |-> f,
                                          full |-> (o.kind = "ok"), buf |-> tflite_model])

\* ------------------------------------------------ the conversion scripts
\* convert_facenet.py, convert_facenet_v2.py: the saved_model.pb check
LocateByMarker ==
    /\ script \in {ConvertFacenet, ConvertFacenetV2}
    /\ pc = "start"
    /\ IF MarkerMissing(markerExists)
       THEN ReturnFalse /\ UNCHANGED model_dir
       ELSE model_dir' = <<MODELS_DIR>> /\ Goto("load")
    /\ UNCHANGED <<env, loadedDir, traceAttempts, tflite_model, files, writeLog,
                   fallbackResult, dl>>

\* convert_to_tflite.py: the directory scan, then the print of line 23
\* (nothing found) or of line 26 (found), both inside the try
LocateByScan ==
    /\ script = ConvertToTflite
    /\ pc = "start"
    /\ \E listed \in BOOLEAN :
         IF ~listed
         THEN Except("listdir") /\ UNCHANGED model_dir
         ELSE /\ model_dir' = FindModelDir(listing)
              /\ IF PrintRaises(script, stdoutEncodes) THEN Except("print")
                 ELSE IF FindModelDir(listing) = <<>> THEN ReturnFalse
                 ELSE Goto("load")
    /\ UNCHANGED <<env, loadedDir, traceAttempts, tflite_model, files, writeLog,
                   fallbackResult, dl>>

\* model = tf.saved_model.load(model_dir)
Load ==
    /\ script \in ConvScripts
    /\ pc = "load"
    /\ loadedDir' = Append(loadedDir, model_dir)
    /\ \E ok \in BOOLEAN : IF ok THEN Goto("signature") ELSE Except("load")
    /\ UNCHANGED <<env, model_dir, traceAttempts, tflite_model, files, writeLog,
                   fallbackResult, dl>>

\* infer = model.signatures['serving_default']
Signature ==
    /\ script \in ConvScripts
    /\ pc = "signature"
    /\ \E ok \in BOOLEAN : IF ok THEN Goto("trace") ELSE Except("signature")
    /\ UNCHANGED <<env, conv, dl>>

\* infer.get_concrete_function(TensorSpec(shape=[None, 160, 160, 3]))
Trace ==
    /\ script \in ConvScripts
    /\ pc = "trace"
    /\ \E ok \in BOOLEAN :
         /\ traceAttempts' = Append(traceAttempts, [shape |-> DynamicShape, ok |-> ok])
         /\ IF ok THEN Goto("convert")
            ELSE IF RetriesTrace(script) THEN Goto("trace_retry")
            ELSE Except("trace")
    /\ UNCHANGED <<env, model_dir, loadedDir, tflite_model, files, writeLog,
                   fallbackResult, dl>>

\* the inner except: of convert_facenet_v2.py, shape=[1, 160, 160, 3]
TraceRetry ==
    /\ script \in ConvScripts
    /\ pc = "trace_retry"
    /\ \E ok \in BOOLEAN :
         /\ traceAttempts' = Append(traceAttempts, [shape |-> FixedShape, ok |-> ok])
         /\ IF ok THEN Goto("convert") ELSE Except("trace")
    /\ UNCHANGED <<env, model_dir, loadedDir, tflite_model, files, writeLog,
                   fallbackResult, dl>>

\* converter = from_concrete_functions(...); tflite_model = converter.convert()
Convert ==
    /\ script \in ConvScripts
    /\ pc = "convert"
    /\ \/ \E b \in TfliteBuffers : tflite_model' = b /\ Goto("write_1")
       \/ Except("convert") /\ UNCHANGED tflite_model
    /\ UNCHANGED <<env, model_dir, loadedDir, traceAttempts, files, writeLog,
                   fallbackResult, dl>>

\* the first with open(...) block
WriteFirst ==
    /\ script \in ConvScripts
    /\ pc = "write_1"
    /\ \E o \in WriteOutcomes(tflite_model) :
         /\ WriteFile(WriteOrder[1], PrimaryPath, o)
         /\ IF o.kind = "ok" THEN Goto("write_2") ELSE Except("write")
    /\ UNCHANGED <<env, model_dir, loadedDir, traceAttempts, tflite_model,
                   fallbackResult, dl>>

\* the second with open(...) block, then return True
WriteSecond ==
    /\ script \in ConvScripts
    /\ pc = "write_2"
    /\ \E o \in WriteOutcomes(tflite_model) :
         /\ WriteFile(WriteOrder[2], PrimaryPath, o)
         /\ IF o.kind = "ok"
            THEN pc' = "done" /\ result' = True /\ UNCHANGED <<fallbackCalls, raisedAt, uncaught>>
            ELSE Except("write")
    /\ UNCHANGED <<env, model_dir, loadedDir, traceAttempts, tflite_model,
                   fallbackResult, dl>>

\* ------------------------------------- create_simple_tflite_model (v2 only)
\* Sequential(...), compile, fit on one batch of noise
FallbackBuild ==
    /\ script \in ConvScripts
    /\ pc = "fb_build"
    /\ \E ok \in BOOLEAN :
         IF ok THEN Goto("fb_convert") /\ UNCHANGED fallbackResult
         ELSE FallbackExcept("fb_build")
    /\ UNCHANGED <<env, model_dir, loadedDir, traceAttempts, tflite_model, files,
                   writeLog, dl>>

\* converter = from_keras_model(model); tflite_model = converter.convert()
FallbackConvert ==
    /\ script \in ConvScripts
    /\ pc = "fb_convert"
    /\ \/ \E b \in TfliteBuffers :
            tflite_model' = b /\ Goto("fb_write_1") /\ UNCHANGED fallbackResult
       \/ FallbackExcept("fb_convert") /\ UNCHANGED tflite_model
    /\ UNCHANGED <<env, model_dir, loadedDir, traceAttempts, files, writeLog, dl>>

FallbackWriteFirst ==
    /\ script \in ConvScripts
    /\ pc = "fb_write_1"
    /\ \E o \in WriteOutcomes(tflite_model) :
         /\ WriteFile(WriteOrder[1], FallbackPath, o)
         /\ IF o.kind = "ok" THEN Goto("fb_write_2") /\ UNCHANGED fallbackResult
            ELSE FallbackExcept("fb_write")
    /\ UNCHANGED <<env, model_dir, loadedDir, traceAttempts, tflite_model, dl>>

\* the second block, then return True
FallbackWriteSecond ==
    /\ script \in ConvScripts
    /\ pc = "fb_write_2"
    /\ \E o \in WriteOutcomes(tflite_model) :
         /\ WriteFile(WriteOrder[2], FallbackPath, o)
         /\ IF o.kind = "ok"
            THEN /\ fallbackResult' = True
                 /\ pc' = "fb_return"
                 /\ UNCHANGED <<result, fallbackCalls, raisedAt, uncaught>>
            ELSE FallbackExcept("fb_write")
    /\ UNCHANGED <<env, model_dir, loadedDir, traceAttempts, tflite_model, dl>>

\* return create_simple_tflite_model()
ReturnFallback ==
    /\ script \in ConvScripts
    /\ pc = "fb_return"
    /\ result' = HandlerReturn(fallbackResult)
    /\ pc' = "done"
    /\ UNCHANGED <<env, conv, fallbackCalls, raisedAt, uncaught, dl>>

\* ---------------------------------------------------------- the downloader
\* the head of main(): the emoji print of line 32, then
\* os.makedirs("assets/models", exist_ok=True), both outside any try block
Makedirs ==
    /\ script = GetTfliteModels
    /\ pc = "start"
    /\ \E ok \in BOOLEAN :
         IF ok /\ ~PrintRaises(script, stdoutEncodes)
         THEN pc' = "loop" /\ UNCHANGED uncaught
         ELSE pc' = "crashed" /\ uncaught' = TRUE
    /\ UNCHANGED <<env, result, fallbackCalls, raisedAt, conv, dl>>

\* one iteration of  for model in models.  A call that blocks forever is the
\* state pc = "blocked", which no step leaves
DownloadEntry ==
    /\ script = GetTfliteModels
    /\ pc = "loop"
    /\ idx <= Len(models)
    /\ \E o \in DownloadOutcomes :
         LET r == download_file(o, stdoutEncodes) IN
         /\ attempts' = Append(attempts, [entry |-> idx, outcome |-> o, ret |-> r])
         /\ IF r = Raised
            THEN /\ pc' = "crashed" /\ uncaught' = TRUE
                 /\ UNCHANGED <<success_count, idx>>
            ELSE IF r = Blocked
            THEN /\ pc' = "blocked"
                 /\ UNCHANGED <<uncaught, success_count, idx>>
            ELSE /\ success_count' = CountAfter(success_count, r = True)
                 /\ idx' = NextEntry(idx, r = True)
                 /\ UNCHANGED <<pc, uncaught>>
    /\ UNCHANGED <<env, result, fallbackCalls, raisedAt, conv, summary>>

\* print(f"Downloaded {success_count}/{len(models)} models successfully")
Summary ==
    /\ script = GetTfliteModels
    /\ pc = "loop"
    /\ idx > Len(models)
    /\ summary' = <<success_count, Len(models)>>
    /\ pc' = "done"
    /\ UNCHANGED <<env, result, fallbackCalls, raisedAt, conv, uncaught,
                   idx, success_count, attempts>>

\* ---------------------------------------------------------- specifications
Next ==
    \/ LocateByMarker
    \/ LocateByScan
    \/ Load
    \/ Signature
    \/ Trace
    \/ TraceRetry
    \/ Convert
    \/ WriteFirst
    \/ WriteSecond
    \/ FallbackBuild
    \/ FallbackConvert
    \/ FallbackWriteFirst
    \/ FallbackWriteSecond
    \/ ReturnFallback
    \/ Makedirs
    \/ DownloadEntry
    \/ Summary

Spec == Init /\ [][Next]_vars

\* the downloader alone; the interpreter keeps running, so a step that is
\* enabled is eventually taken (a retrieval that never ends is pc = "blocked")
InitDl == Init /\ script = GetTfliteModels
NextDl == Makedirs \/ DownloadEntry \/ Summary
FairDl == InitDl /\ [][NextDl]_vars /\ WF_vars(NextDl)

\* ================================================================== claims
Last(q) == q[Len(q)]
Accepted == { i \in 1..Len(attempts) : attempts[i].ret = "True" }
FullWrites(f) == { i \in 1..Len(writeLog) : writeLog[i].file = f /\ writeLog[i].full }
Touches(f) == { i \in 1..Len(writeLog) : writeLog[i].file = f }

\* C1: whenever a conversion script returns True, both output files were
\* written in this run, by the same function, with the buffer the converter
\* returned; they are byte-identical and non-empty (primary and fallback path)
C1_OutputsIdentical ==
    (script \in ConvScripts /\ result = "True") =>
        /\ files["assets/models/face_recognition_model.tflite"].exists
        /\ files["assets/models/mobilefacenet.tflite"].exists
        /\ files["assets/models/face_recognition_model.tflite"].data
             = files["assets/models/mobilefacenet.tflite"].data
        /\ Len(files["assets/models/mobilefacenet.tflite"].data) > 0
        /\ Len(writeLog) >= 2
        /\ LET a == writeLog[Len(writeLog) - 1]
               b == Last(writeLog)
           IN  /\ a.file = "assets/models/face_recognition_model.tflite"
               /\ b.file = "assets/models/mobilefacenet.tflite"
               /\ a.full /\ b.full
               /\ a.by = b.by
               /\ a.buf = b.buf
               /\ a.buf = tflite_model
               /\ files[a.file].data = a.buf
               /\ files[b.file].data = b.buf

\* v2 returned True through the fallback after the primary path had already
\* written the first file with another buffer
C1_Witness ==
    /\ script = ConvertFacenetV2
    /\ result = "True"
    /\ fallbackCalls = 1
    /\ Len(writeLog) >= 3
    /\ writeLog[1].by = PrimaryPath
    /\ writeLog[1].full
    /\ writeLog[1].buf # tflite_model

\* C2: with saved_model.pb absent, convert_facenet.py and convert_facenet_v2.py
\* return False at once: nothing is loaded, traced or written and the
\* fallback is not called
C2_MissingMarker ==
    (script \in {ConvertFacenet, ConvertFacenetV2} /\ ~markerExists /\ pc # "start") =>
        /\ pc = "done"
        /\ result = "False"
        /\ writeLog = <<>>
        /\ loadedDir = <<>>
        /\ traceAttempts = <<>>
        /\ fallbackCalls = 0
        /\ raisedAt = <<>>

C2_Witness ==
    script = ConvertFacenetV2 /\ ~markerExists /\ pc = "done" /\ result = "False"

\* C3: download_file returns True only for a retrieval that completed, whose
\* size could be read and exceeds 100000; a completed download of at most
\* 100000 bytes returns False and is not counted
C3_SizeThreshold ==
    /\ \A i \in 1..Len(attempts) :
         LET a == attempts[i] IN
         /\ a.ret = "True" =>
              (a.outcome.retrieved /\ a.outcome.stat /\ a.outcome.size > 100000)
         /\ (a.outcome.retrieved /\ a.outcome.size <= 100000) => a.ret = "False"
    /\ success_count
         = Cardinality({ i \in 1..Len(attempts) :
                           /\ attempts[i].outcome.retrieved
                           /\ attempts[i].outcome.stat
                           /\ attempts[i].outcome.size > 100000 })

\* a completed download of exactly 100000 bytes was rejected and not counted
C3_Witness ==
    /\ Len(attempts) = 1
    /\ attempts[1].outcome
         = [ends |-> TRUE, retrieved |-> TRUE, stat |-> TRUE, size |-> 100000]
    /\ attempts[1].ret = "False"
    /\ success_count = 0

\* C4: success_count is the number of download_file calls so far that
\* returned True; the summary prints that number, between 0 and 3, out of 3
C4_CountMatches ==
    /\ success_count = Cardinality(Accepted)
    /\ success_count \in 0..3
    /\ summary # <<>> => summary = <<Cardinality(Accepted), 3>>

C4_Witness ==
    /\ summary = <<2, 3>>
    /\ attempts[2].ret = "False"

\* C6: no exception leaves an entry function; every run that ends reports a
\* boolean (the conversion scripts) or reaches the summary (the downloader).
\* Fails for os.makedirs in main and for the emoji prints of
\* convert_to_tflite.py and get_tflite_models.py
C6_NoUncaughtException ==
    /\ uncaught = FALSE
    /\ pc # "crashed"

\* C7: when load, signature lookup, tracing or conversion raises out of the
\* try body, convert_facenet_v2.py calls create_simple_tflite_model once and
\* returns what it returned (True exactly when the fallback wrote both files);
\* the other two scripts return False and never call it
C7_FallbackOnlyInV2 ==
    (script \in ConvScripts /\ raisedAt # <<>>
        /\ raisedAt[1] \in {"load", "signature", "trace", "convert"}) =>
        IF script = "convert_facenet_v2.py"
        THEN /\ fallbackCalls = 1
             /\ pc = "done" =>
                  /\ result = fallbackResult
                  /\ result \in {"True", "False"}
                  /\ result = "True" <=>
                       /\ Len(writeLog) >= 2
                       /\ Last(writeLog).by = FallbackPath
                       /\ Last(writeLog).full
                       /\ Last(writeLog).file = "assets/models/mobilefacenet.tflite"
        ELSE /\ fallbackCalls = 0
             /\ fallbackResult = "none"
             /\ pc = "done"
             /\ result = "False"
             /\ \A i \in 1..Len(writeLog) : writeLog[i].by # FallbackPath

\* v2: both trace attempts raised, the fallback ran and its True was returned
C7_Witness ==
    /\ script = ConvertFacenetV2
    /\ raisedAt = <<"trace">>
    /\ pc = "done"
    /\ fallbackCalls = 1
    /\ result = "True"

\* C8: v2 traces with [None,160,160,3] first and, exactly when that raises,
\* once more with [1,160,160,3]; a second failure goes to the outer handler;
\* the other scripts trace once and a failure ends the run
C8_TraceRetry ==
    /\ Len(traceAttempts) <= (IF script = "convert_facenet_v2.py" THEN 2 ELSE 1)
    /\ Len(traceAttempts) >= 1 => traceAttempts[1].shape = <<"None", "160", "160", "3">>
    /\ Len(traceAttempts) = 2 =>
         /\ ~traceAttempts[1].ok
         /\ traceAttempts[2].shape = <<"1", "160", "160", "3">>
    /\ (script = "convert_facenet_v2.py" /\ Len(traceAttempts) = 1 /\ ~traceAttempts[1].ok)
         => pc = "trace_retry"
    /\ (Len(traceAttempts) = 2 /\ ~traceAttempts[2].ok) =>
         /\ raisedAt # <<>> /\ raisedAt[1] = "trace"
         /\ fallbackCalls = 1
         /\ pc \notin {"trace", "trace_retry", "convert", "write_1", "write_2"}
    /\ (script \in ConvScripts \ {"convert_facenet_v2.py"} /\ Len(traceAttempts) = 1
          /\ ~traceAttempts[1].ok) => (pc = "done" /\ result = "False")
    /\ pc \in {"convert", "write_1", "write_2"} =>
         (Len(traceAttempts) >= 1 /\ Last(traceAttempts).ok)

C8_Witness ==
    /\ script = ConvertFacenetV2
    /\ Len(traceAttempts) = 2
    /\ ~traceAttempts[2].ok
    /\ pc = "fb_build"

\* C9: convert_to_tflite.py picks the first listed entry that is a directory
\* whose lower-cased name contains "facenet"; with none it returns False
\* without loading, tracing, writing or any other strategy.
\* Fails on the return: when stdout cannot encode the emoji of line 23 the
\* function raises instead of returning False
ExpectedMatches == {NameFaceNet, NameUpperSuffix, NameLowerPrefix}
Qualifies(e) == e.isdir /\ e.name \in ExpectedMatches
C9_FirstCandidate ==
    (script = ConvertToTflite /\ pc # "start"
        /\ (raisedAt = <<>> \/ raisedAt[1] # "listdir")) =>
        IF \E i \in 1..Len(listing) : Qualifies(listing[i])
        THEN \E i \in 1..Len(listing) :
               /\ Qualifies(listing[i])
               /\ \A j \in 1..(i - 1) : ~Qualifies(listing[j])
               /\ model_dir = <<"assets/models", listing[i].name>>
               /\ \A k \in 1..Len(loadedDir) : loadedDir[k] = model_dir
        ELSE /\ model_dir = <<>>
             /\ pc = "done"
             /\ result = "False"
             /\ loadedDir = <<>>
             /\ traceAttempts = <<>>
             /\ writeLog = <<>>
             /\ fallbackCalls = 0
             /\ raisedAt = <<>>

\* C10: mobilefacenet.tflite is opened only right after the same function
\* wrote face_recognition_model.tflite completely with the same buffer; so
\* when convert_facenet.py or convert_to_tflite.py returns False the alias
\* is never the only file written
C10_AliasAfterPrimary ==
    /\ \A i \in 1..Len(writeLog) :
         writeLog[i].file = "assets/models/mobilefacenet.tflite" =>
           /\ i > 1
           /\ writeLog[i - 1].file = "assets/models/face_recognition_model.tflite"
           /\ writeLog[i - 1].full
           /\ writeLog[i - 1].buf = writeLog[i].buf
           /\ writeLog[i - 1].by = writeLog[i].by
    /\ (writeLog # <<>> /\ Last(writeLog).file = "assets/models/mobilefacenet.tflite") =>
         files["assets/models/face_recognition_model.tflite"]
           = [exists |-> TRUE, data |-> Last(writeLog).buf]
    /\ (script \in {ConvertFacenet, ConvertToTflite} /\ result = "False") =>
         /\ FullWrites("assets/models/mobilefacenet.tflite") = {}
         /\ Touches("assets/models/mobilefacenet.tflite") # {} =>
              FullWrites("assets/models/face_recognition_model.tflite") # {}

\* convert_facenet.py returned False with the primary file written and the
\* alias not opened
C10_Witness ==
    /\ script = ConvertFacenet
    /\ result = "False"
    /\ Len(writeLog) = 1
    /\ writeLog[1].file = "assets/models/face_recognition_model.tflite"
    /\ writeLog[1].full
    /\ raisedAt = <<"write">>

\* C5 as stated: every entry of the list is attempted exactly once, in list
\* order, whatever the earlier entries did, and once the loop is entered the
\* summary is eventually printed.  Fails when a retrieval never ends
C5_AllEntriesAttempted ==
    /\ [](\A i \in 1..Len(attempts) : attempts[i].entry = i)
    /\ [](Len(attempts) <= 3)
    /\ [](summary # <<>> => Len(attempts) = 3)
    /\ (pc = "loop") ~> (summary # <<>>)

\* C5 amended: the same, with the summary eventually printed unless a
\* retrieval blocks forever; an entry that raises or is too small never
\* keeps the later ones from being attempted
C5_AllEntriesAttemptedUnlessBlocked ==
    /\ [](\A i \in 1..Len(attempts) : attempts[i].entry = i)
    /\ [](Len(attempts) <= 3)
    /\ [](summary # <<>> =>
            /\ Len(attempts) = 3
            /\ \A i \in 1..3 : attempts[i].ret \in {"True", "False"})
    /\ [](pc = "blocked" =>
            /\ attempts # <<>>
            /\ ~Last(attempts).outcome.ends
            /\ summary = <<>>)
    /\ (pc = "loop") ~> (summary # <<>> \/ pc = "blocked")

\* all three downloads failed, each in a different way, and the summary came
C5_Witness ==
    /\ summary = <<0, 3>>
    /\ Len(attempts) = 3
    /\ attempts[1].outcome.ends /\ ~attempts[1].outcome.retrieved
    /\ attempts[2].outcome.retrieved /\ ~attempts[2].outcome.stat
    /\ attempts[3].outcome.stat /\ attempts[3].outcome.size < 100000
====
